---------------------------- MODULE Spec2Model ----------------------------
(***************************************************************************)
(* A model of tistel: the metadata index (Indexer.index_images and the     *)
(* cache document), the tag filter and the tag edit of the main window.    *)
(*                                                                         *)
(* The cache document's `updated` stamp is left out of the model: the scan *)
(* only copies it and no property below reads it.                          *)
(***************************************************************************)
EXTENDS Integers, Sequences, FiniteSets, TLC

(***************************************************************************)
(* Bounds of the model.                                                    *)
(***************************************************************************)
MaxTime == 2      \* timestamps are 1..MaxTime
MaxSize == 2      \* byte sizes are 1..MaxSize
MaxFsOps == 2     \* changes made to the files by the environment
MaxScans == 2     \* scan requests issued in one behaviour
MaxEdits == 2     \* tag edits applied in one behaviour
MaxWindowEdits == 1   \* tag edits applied in one behaviour that also scans
MaxLoads == 2     \* batches of thumbnail requests queued in one behaviour
MaxViewLoads == 3 \* calls of ThumbView.load_index in one behaviour

(***************************************************************************)
(* The files of the library.  P1 lies under the root R1 only; P2 lies      *)
(* under R2, a directory below R1, so it is found from both roots; P3 is   *)
(* not an image by its extension.                                          *)
(***************************************************************************)
R1 == "/r1"
R2 == "/r1/r2"
P1 == "/r1/a.png"
P2 == "/r1/r2/b.JPG"
P3 == "/r1/c.txt"
Roots == {R1, R2}
Paths == {P1, P2, P3}
PathOrder == <<P1, P2, P3>>
RootOrder == <<R1, R2>>
Tags == {"a", "b"}
TagOrder == <<"a", "b">>

Times == 1..MaxTime
Sizes == 1..MaxSize

\* path.suffix.lower()
suffix_lower == [p \in Paths |-> CASE p = P1 -> ".png" [] p = P2 -> ".jpg" [] OTHER -> ".txt"]

\* the files that root_path.rglob('**/*') can yield
Under(root) == IF root = R1 THEN {P1, P2, P3} ELSE {P2}

(***************************************************************************)
(* Sequences and sets.                                                     *)
(***************************************************************************)
Range(s) == {s[k] : k \in DOMAIN s}

\* sorted(tags) of a set of tags
sorted(S) == SelectSeq(TagOrder, LAMBDA t : t \in S)

\* the sequences that list every element of a set once: the orders in which
\* a Python set can be iterated
Orderings(S) == {s \in [1..Cardinality(S) -> S] : Range(s) = S}

(***************************************************************************)
(* The file system.  A file carries its stat values and what the metadata  *)
(* reader finds in it: kind "ok" gives tags and dimensions, "oserr" makes  *)
(* the reader raise an OSError, "bad" any other exception.                 *)
(***************************************************************************)
Absent == [exists |-> FALSE, mtime |-> 0, size |-> 0, ctime |-> 0,
           tags |-> {}, w |-> 0, h |-> 0, kind |-> "ok"]

Contents == {[tags |-> {}, w |-> -1, h |-> -1, kind |-> "ok"],
             [tags |-> {"a", "b"}, w |-> 2, h |-> 1, kind |-> "ok"],
             [tags |-> {}, w |-> -1, h |-> -1, kind |-> "oserr"],
             [tags |-> {}, w |-> -1, h |-> -1, kind |-> "bad"]}

File(m, c, s, body) ==
    [exists |-> TRUE, mtime |-> m, size |-> s, ctime |-> c,
     tags |-> body.tags, w |-> body.w, h |-> body.h, kind |-> body.kind]

Files == {File(m, c, s, body) : m \in Times, c \in Times, s \in Sizes, body \in Contents}

\* a file that is no image
TextFile == File(1, 1, 1, [tags |-> {}, w |-> -1, h |-> -1, kind |-> "bad"])

\* the path other programs write to and delete
Volatile == {P2}

\* what a path can hold
FilesAt(p) == IF suffix_lower[p] \in {".png", ".jpg"} THEN Files ELSE {TextFile}


(***************************************************************************)
(* The cache document on disk (CACHE) and the Cache object.                *)
(***************************************************************************)
NoImages == [p \in {} |-> Absent]

\* CACHE does not exist
NoDocument == [state |-> "nofile", images |-> NoImages]

\* CACHE has been opened for writing and holds no complete document
Truncated == [state |-> "truncated", images |-> NoImages]

\* a record with its two time stamps in each other's place
CachedImageData_Swapped(tags, size, w, h, mtime, ctime) ==
    [tags |-> tags, size |-> size, w |-> w, h |-> h, mtime |-> ctime, ctime |-> mtime]

\* a CachedImageData
CachedImageData(tags, size, w, h, mtime, ctime) ==
    [tags |-> tags, size |-> size, w |-> w, h |-> h, mtime |-> mtime, ctime |-> ctime]

\* the text json.dumps makes of the images of a Cache
Cache_save(images) ==
    [state |-> "ok",
     images |-> [p \in DOMAIN images |->
                    CachedImageData(images[p].tags, images[p].size, images[p].w,
                                    images[p].h, images[p].mtime, images[p].ctime)]]

\* the images Cache.load reads from a complete document
Cache_load(doc) ==
    [p \in DOMAIN doc.images |->
        CachedImageData(doc.images[p].tags, doc.images[p].size, doc.images[p].w,
                        doc.images[p].h, doc.images[p].mtime, doc.images[p].ctime)]

(***************************************************************************)
(* State.                                                                  *)
(***************************************************************************)
VARIABLES
    fs,              \* the files: Paths -> Files \cup {Absent}
    CACHE,           \* the cache document on disk
    paths,           \* the configured root directories
    fault,           \* "none"; "killed" or "exception" once the process has stopped
    pc,              \* position of the indexer thread in index_images
    cache,           \* index_images: the images of the loaded Cache
    image_paths,     \* index_images: the files found by the search
    count,           \* index_images: entries of image_paths handled so far
    queued,          \* start_indexing events waiting in the indexer thread
    done_pending,    \* done events waiting in the main thread
    progress_shown,  \* the modal IndexerProgress dialog is open
    items,           \* thumb_view: the loaded images, each with its tags and hidden flag
    tag_list,        \* left_column.tag_list: rows of tag, count, visible count, state
    tag_count,       \* MainWindow.tag_count, a Counter
    calls,           \* history: calls of extract_metadata per path in this scan
    fsops,           \* history: changes made by the environment
    edits,           \* history: tag edits applied
    last_edit,       \* history: the last tag edit, what it was given and what it did
    reports,         \* history: the signals the running scan has emitted, in order
    requested,       \* history: scan requests issued
    started,         \* history: executions of index_images begun
    finished,        \* history: executions of index_images returned
    pre_scan,        \* history: CACHE as the running scan found it
    undisturbed,     \* history: nothing but the scan changed files or CACHE since it began
    quiet,           \* history: scans completed in a row with nothing else changing anything
    saved,           \* history: the images written by the last completed save
    prev_saved,      \* history: the images written by the save before that
    thumbs,          \* the thumbnail files in THUMBNAILS, by the path their name is the key of
    cached_thumbs,   \* ImageLoader.cached_thumbs: path -> icon
    batch,           \* load_image: the requests of imgs not handled yet
    loads,           \* history: batches queued
    last_thumb,      \* history: the last turn of load_image, its request, signal and disk accesses
    gen_in,          \* generate_thumbnail on its own: the image, its path, and what is at thumb_path
    gen_out,         \* generate_thumbnail on its own: what the call wrote
    tv_batch,        \* ThumbView.batch
    tv_items,        \* ThumbView: its rows, each with its path and icon
    tv_progress,     \* ThumbView.progress: value, maximum, shown
    image_queue,     \* image_queued events and their requests waiting in the loader thread
    ready,           \* thumbnail_ready events waiting in the main thread
    tv_calls,        \* history: calls of ThumbView.load_index
    tv_dropped       \* history: events add_thumbnail has returned from at once

scan_vars == <<pc, cache, image_paths, count>>
ui_vars == <<queued, done_pending, progress_shown>>
view_vars == <<items, tag_list, tag_count>>
past_vars == <<calls, fsops, edits, last_edit, requested, started, finished, pre_scan, undisturbed,
               quiet, saved, prev_saved>>
hist_vars == <<past_vars, reports>>
thumb_vars == <<thumbs, cached_thumbs, batch, loads, last_thumb>>
gen_vars == <<gen_in, gen_out>>
tv_vars == <<tv_batch, tv_items, tv_progress, image_queue, ready, tv_calls, tv_dropped>>
vars == <<fs, CACHE, paths, fault, scan_vars, ui_vars, view_vars, hist_vars, thumb_vars, gen_vars,
          tv_vars>>

\* no tag edit has been made
NoEdit ==
    [selected |-> <<>>, tags_to_add |-> {}, tags_to_remove |-> {}, cancel |-> 0,
     new_tag_count |-> <<>>, updated_files |-> <<>>, set_tags_calls |-> <<>>,
     raised |-> FALSE]

NoCalls == [p \in Paths |-> 0]
Alive == fault = "none"

(***************************************************************************)
(* Indexer.index_images, one action per step of the indexer thread.        *)
(***************************************************************************)
\* a staleness check that looks at the modification time alone
IsFresh_MtimeOnly(images, p, stat) ==
    /\ p \in DOMAIN images
    /\ stat.mtime = images[p].mtime

\* the staleness check of one file against its record
IsFresh(images, p, stat) ==
    /\ p \in DOMAIN images
    /\ stat.mtime = images[p].mtime
    /\ stat.size = images[p].size

\* an extraction that gives an unreadable image no tags instead of raising
extract_metadata_Lenient(f) ==
    IF ~f.exists \/ f.kind = "oserr" THEN [raises |-> "OSError", tags |-> <<>>, w |-> 0, h |-> 0]
    ELSE IF f.kind = "bad" THEN [raises |-> "no", tags |-> <<>>, w |-> 0, h |-> 0]
    ELSE [raises |-> "no", tags |-> sorted(f.tags), w |-> f.w, h |-> f.h]

\* extract_metadata: what it returns or raises for a file
extract_metadata(f) ==
    IF ~f.exists \/ f.kind = "oserr" THEN [raises |-> "OSError", tags |-> <<>>, w |-> 0, h |-> 0]
    ELSE IF f.kind = "bad" THEN [raises |-> "Exception", tags |-> <<>>, w |-> 0, h |-> 0]
    ELSE [raises |-> "no", tags |-> sorted(f.tags), w |-> f.w, h |-> f.h]

\* images with the record of p replaced
WithRecord(images, p, rec) ==
    [q \in DOMAIN images \cup {p} |-> IF q = p THEN rec ELSE images[q]]

\* the images found under one root, in directory order
FoundUnder(root) ==
    SelectSeq(PathOrder, LAMBDA p : /\ p \in Under(root)
                                    /\ fs[p].exists
                                    /\ suffix_lower[p] \in {".png", ".jpg"})

RECURSIVE SearchAll(_)
SearchAll(roots) ==
    IF roots = <<>> THEN <<>> ELSE FoundUnder(Head(roots)) \o SearchAll(Tail(roots))

\* an indexer that takes a start_indexing event whatever it is doing
MayStart_Always == TRUE

\* the signals of index_images: set_text with the counters its text carries, and done
Report(phase, n, total) == [phase |-> phase, count |-> n, total |-> total]

Loading == Report("loading", 0, 0)
Saving == Report("saving", 0, 0)
Done == Report("done", 0, 0)

\* lines 200-202: the count is raised, then the text with it is emitted
Searching(n) == Report("searching", n, 0)

Indexing_AfterIncrement(n, total) == Report("indexing", n + 1, total)

\* lines 208-210: the text with the count is emitted, then the count is raised
Indexing(n, total) == Report("indexing", n, total)

\* the event loop of the indexer thread takes the next start_indexing event
MayStart == pc = "idle"

\* lines 187-193: the queued call begins and loads the cache
StartScan ==
    /\ Alive
    /\ MayStart
    /\ queued > 0
    /\ queued' = queued - 1
    /\ started' = started + 1
    /\ calls' = NoCalls
    /\ pre_scan' = CACHE
    /\ undisturbed' = TRUE
    /\ IF CACHE.state = "truncated"
       THEN \* json.loads raises; nothing catches it
            /\ fault' = "exception"
            /\ UNCHANGED <<pc, cache>>
       ELSE /\ cache' = IF CACHE.state = "ok" THEN Cache_load(CACHE) ELSE NoImages
            /\ pc' = "search"
            /\ fault' = fault
    /\ image_paths' = <<>>
    /\ count' = 0
    /\ reports' = <<Loading>>
    /\ UNCHANGED <<fs, CACHE, paths, tv_vars, gen_vars, thumb_vars, done_pending, progress_shown, view_vars, edits, last_edit, fsops, requested,
                   finished, quiet, saved, prev_saved>>

\* lines 194-206: the search phase
Search ==
    /\ Alive
    /\ pc = "search"
    /\ \E order \in Orderings(paths) : image_paths' = SearchAll(order)
    /\ count' = 0
    /\ pc' = "index"
    /\ reports' = reports \o [n \in 1..Len(image_paths') |-> Searching(n)]
    /\ UNCHANGED <<fs, CACHE, paths, tv_vars, gen_vars, thumb_vars, fault, cache, ui_vars, view_vars, past_vars>>

\* lines 207-231: one turn of the indexing loop
IndexOne ==
    /\ Alive
    /\ pc = "index"
    /\ count < Len(image_paths)
    /\ LET path == image_paths[count + 1]
           stat == fs[path]
           meta == extract_metadata(stat)
       IN  IF ~stat.exists
           THEN \* path.stat() raises outside the try statement
                /\ fault' = "exception"
                /\ UNCHANGED <<cache, count, calls>>
           ELSE /\ fault' = fault
                /\ count' = count + 1
                /\ IF IsFresh(cache, path, stat)
                   THEN UNCHANGED <<cache, calls>>
                   ELSE /\ calls' = [calls EXCEPT ![path] = @ + 1]
                        /\ cache' = IF meta.raises = "no"
                                    THEN WithRecord(cache, path,
                                             CachedImageData(meta.tags, stat.size, meta.w,
                                                             meta.h, stat.mtime, stat.ctime))
                                    ELSE cache
    /\ reports' = Append(reports, Indexing(count, Len(image_paths)))
    /\ UNCHANGED <<fs, CACHE, paths, tv_vars, gen_vars, thumb_vars, pc, image_paths, ui_vars, view_vars, edits, last_edit, fsops, requested, started,
                   finished, pre_scan, undisturbed, quiet, saved, prev_saved>>

\* lines 232-234: the loop is over
EndIndexing ==
    /\ Alive
    /\ pc = "index"
    /\ count = Len(image_paths)
    /\ pc' = "save"
    /\ reports' = Append(reports, Saving)
    /\ UNCHANGED <<fs, CACHE, paths, tv_vars, gen_vars, thumb_vars, fault, cache, image_paths, count, ui_vars, view_vars, past_vars>>

\* Cache.save, first half: write_text opens CACHE for writing, which empties it
SaveOpen ==
    /\ Alive
    /\ pc = "save"
    /\ CACHE' = Truncated
    /\ pc' = "write"
    /\ UNCHANGED <<fs, paths, tv_vars, gen_vars, thumb_vars, fault, cache, image_paths, count, ui_vars, view_vars, hist_vars>>

\* Cache.save, second half: the text is written and the file closed
SaveWrite ==
    /\ Alive
    /\ pc = "write"
    /\ CACHE' = Cache_save(cache)
    /\ pc' = "emit"
    /\ prev_saved' = saved
    /\ saved' = Cache_save(cache).images
    /\ quiet' = IF undisturbed THEN (IF quiet < 2 THEN quiet + 1 ELSE 2) ELSE 0
    /\ UNCHANGED <<fs, paths, tv_vars, gen_vars, thumb_vars, fault, cache, image_paths, count, ui_vars, view_vars, edits, last_edit, reports, calls, fsops,
                   requested, started, finished, pre_scan, undisturbed>>

\* line 236: done is emitted and index_images returns
EmitDone ==
    /\ Alive
    /\ pc = "emit"
    /\ done_pending' = done_pending + 1
    /\ finished' = finished + 1
    /\ pc' = "idle"
    /\ reports' = Append(reports, Done)
    /\ UNCHANGED <<fs, CACHE, paths, tv_vars, gen_vars, thumb_vars, fault, cache, image_paths, count, queued,
                   progress_shown, view_vars, edits, last_edit, calls, fsops, requested, started, pre_scan, undisturbed,
                   quiet, saved, prev_saved>>


(***************************************************************************)
(* The tag list of the left column.                                        *)
(***************************************************************************)
TagStates == {"DEFAULT", "WHITELISTED", "BLACKLISTED"}

\* LeftColumn.create_tag: a new row
create_tag(tag, n) == [tag |-> tag, count |-> n, visible |-> n, state |-> "DEFAULT"]

\* tag_list.sortItems(Qt.DescendingOrder): rows ordered by count, ties in any order
sortItems(rows) ==
    {s \in Orderings(Range(rows)) :
        \A k \in 1..(Len(s) - 1) : s[k].count >= s[k + 1].count}

\* the number of listed images that carry a tag
Carrying(imgs, t) == Cardinality({k \in DOMAIN imgs : t \in imgs[k].tags})
Untagged(imgs) == Cardinality({k \in DOMAIN imgs : imgs[k].tags = {}})

\* clicks that walk through the three states
Clicked_Cycle(state, button) ==
    IF state = "DEFAULT"
    THEN (IF button = "left" THEN "WHITELISTED" ELSE "BLACKLISTED")
    ELSE IF state = "WHITELISTED" THEN "BLACKLISTED"
    ELSE "DEFAULT"

\* TagListWidget.mousePressEvent: the state a click gives a row
Clicked(state, button) ==
    IF button = "left"
    THEN (IF state = "DEFAULT" THEN "WHITELISTED" ELSE "DEFAULT")
    ELSE (IF state = "DEFAULT" THEN "BLACKLISTED" ELSE "DEFAULT")

\* a filter that lets an image pass with any one of the whitelisted tags
filterAcceptsRow_AnyOf(tags, whitelist, blacklist, untagged_state) ==
    IF \/ (untagged_state = "WHITELISTED" /\ tags # {})
       \/ (untagged_state = "BLACKLISTED" /\ tags = {})
       \/ (whitelist # {} /\ whitelist \cap tags = {})
       \/ (blacklist # {} /\ ~(blacklist \cap tags = {}))
    THEN FALSE
    ELSE TRUE

\* FilterProxyModel.filterAcceptsRow, the test update_tag_filter applies to
\* the tags of an image
filterAcceptsRow(tags, whitelist, blacklist, untagged_state) ==
    IF \/ (untagged_state = "WHITELISTED" /\ tags # {})
       \/ (untagged_state = "BLACKLISTED" /\ tags = {})
       \/ (whitelist # {} /\ ~(whitelist \subseteq tags))
       \/ (blacklist # {} /\ ~(blacklist \cap tags = {}))
    THEN FALSE
    ELSE TRUE

\* update_tag_filter, lines 625-638: what the rows of the tag list ask for
whitelist(rows) ==
    {rows[k].tag : k \in {j \in DOMAIN rows : rows[j].tag # "" /\ rows[j].state = "WHITELISTED"}}
blacklist(rows) ==
    {rows[k].tag : k \in {j \in DOMAIN rows : rows[j].tag # "" /\ rows[j].state = "BLACKLISTED"}}
untagged_state(rows) ==
    IF \E k \in DOMAIN rows : rows[k].tag = ""
    THEN rows[CHOOSE k \in DOMAIN rows :
                 rows[k].tag = "" /\ \A j \in DOMAIN rows : rows[j].tag = "" => j <= k].state
    ELSE "DEFAULT"

\* update_tag_filter, lines 639-655: the images with their hidden flags set
Filtered(imgs, rows) ==
    [k \in DOMAIN imgs |->
        [imgs[k] EXCEPT !.hidden = ~filterAcceptsRow(imgs[k].tags, whitelist(rows),
                                                     blacklist(rows), untagged_state(rows))]]

\* a count that takes the hidden images in
get_tag_count_All(imgs, t) ==
    IF t = ""
    THEN Cardinality({k \in DOMAIN imgs : imgs[k].tags = {}})
    ELSE Cardinality({k \in DOMAIN imgs : t \in imgs[k].tags})

\* get_tag_count: the Counter of the tags of the images that are not hidden;
\* its entry for "" is the number of those without tags
get_tag_count(imgs, t) ==
    IF t = ""
    THEN Cardinality({k \in DOMAIN imgs : ~imgs[k].hidden /\ imgs[k].tags = {}})
    ELSE Cardinality({k \in DOMAIN imgs : ~imgs[k].hidden /\ imgs[k].tags # {}
                                          /\ t \in imgs[k].tags})

\* LeftColumn.update_tags: every row takes its visible count from the Counter
update_tags(rows, imgs) ==
    [k \in DOMAIN rows |-> [rows[k] EXCEPT !.visible = get_tag_count(imgs, rows[k].tag)]]

\* MainWindow.update_tag_filter: the view and the tag list it leaves
update_tag_filter(imgs, rows) ==
    [items |-> Filtered(imgs, rows), tag_list |-> update_tags(rows, Filtered(imgs, rows))]

(***************************************************************************)
(* The main thread.                                                        *)
(***************************************************************************)
\* MainWindow.index_images: the Reload button (the window takes no input
\* while the modal progress dialog is open)
Reload ==
    /\ Alive
    /\ ~progress_shown
    /\ requested < MaxScans
    /\ requested' = requested + 1
    /\ queued' = queued + 1
    /\ progress_shown' = TRUE
    /\ UNCHANGED <<fs, CACHE, paths, tv_vars, gen_vars, thumb_vars, fault, scan_vars, done_pending, view_vars, edits, last_edit, reports, calls,
                   fsops, started, finished, pre_scan, undisturbed, quiet, saved,
                   prev_saved>>

\* IndexerProgress is a plain QDialog: Escape or its close button rejects it
DismissProgress ==
    /\ Alive
    /\ progress_shown
    /\ progress_shown' = FALSE
    /\ UNCHANGED <<fs, CACHE, paths, tv_vars, gen_vars, thumb_vars, fault, scan_vars, queued, done_pending, view_vars,
                   hist_vars>>

\* the rows load_index makes of the cache: existing files under a root
Loadable(images) ==
    SelectSeq(PathOrder, LAMBDA p : /\ p \in DOMAIN images
                                    /\ fs[p].exists
                                    /\ \E root \in paths : p \in Under(root))

\* load_index, lines 572-597: the Counter of the tags of the listed images
CountTags(imgs) ==
    [t \in {u \in Tags : Carrying(imgs, u) > 0} |-> Carrying(imgs, t)]

\* load_index, lines 601-604, and LeftColumn.set_tags: the untagged row and a
\* row per tag, sorted
set_tags(imgs) ==
    UNION {sortItems(s) :
             s \in Orderings({create_tag("", Untagged(imgs))}
                             \cup {create_tag(t, Carrying(imgs, t)) : t \in DOMAIN CountTags(imgs)})}

\* MainWindow.load_index, run for a done event
load_index ==
    /\ Alive
    /\ done_pending > 0
    /\ done_pending' = done_pending - 1
    /\ progress_shown' = FALSE
    /\ IF CACHE.state = "nofile"
       THEN UNCHANGED <<fault, view_vars>>
       ELSE IF CACHE.state = "truncated"
       THEN \* json.loads raises after the view was cleared
            /\ fault' = "exception"
            /\ items' = <<>>
            /\ UNCHANGED <<tag_list, tag_count>>
       ELSE LET listed == Loadable(CACHE.images)
                imgs == [k \in DOMAIN listed |->
                            [path |-> listed[k],
                             tags |-> Range(CACHE.images[listed[k]].tags),
                             hidden |-> FALSE]]
            IN  /\ fault' = fault
                /\ items' = imgs
                /\ tag_count' = CountTags(imgs)
                /\ tag_list' \in set_tags(imgs)
    /\ UNCHANGED <<fs, CACHE, paths, tv_vars, gen_vars, thumb_vars, scan_vars, queued, hist_vars>>

\* TagListWidget.mousePressEvent on a row; tag_state_updated is connected to
\* update_tag_filter
Click ==
    /\ Alive
    /\ ~progress_shown
    /\ \E k \in DOMAIN tag_list : \E button \in {"left", "right"} :
          LET rows == [tag_list EXCEPT ![k].state = Clicked(tag_list[k].state, button)]
              view == update_tag_filter(items, rows)
          IN  /\ items' = view.items
              /\ tag_list' = view.tag_list
    /\ UNCHANGED <<fs, CACHE, paths, tv_vars, gen_vars, thumb_vars, fault, scan_vars, ui_vars, tag_count, hist_vars>>

(***************************************************************************)
(* show_tagging_dialog, from the moment the dialog is accepted.            *)
(***************************************************************************)
\* a Counter: a function on the tags it has entries for
NoCount == [t \in {} |-> 0]
Get(c, t) == IF t \in DOMAIN c THEN c[t] ELSE 0

\* Counter.update
Update(c, d) == [t \in DOMAIN c \cup DOMAIN d |-> Get(c, t) + Get(d, t)]

\* a tag writer that never reports a failure of exiv2
jfti_set_tags_raises_Never(f) == FALSE

\* jfti.set_tags raises ImageError when exiv2 fails on the file
jfti_set_tags_raises(f) == ~f.exists \/ f.kind = "oserr"

\* jfti.set_tags: the file rewritten with new tags at time now, with size sz
jfti_set_tags(f, tags, now, sz) ==
    [f EXCEPT !.tags = tags, !.kind = "ok", !.mtime = now, !.ctime = now, !.size = sz]

\* a tag edit that adds tags and forgets to remove any
NewTags_NoRemove(old_tags, tags_to_add, tags_to_remove) == old_tags \cup tags_to_add

\* line 481: the tags of an item after the edit
NewTags(old_tags, tags_to_add, tags_to_remove) ==
    (old_tags \cup tags_to_add) \ tags_to_remove

\* lines 478-492: the loop over the selected items from the n-th on.  st holds
\* the files, the items, new_tag_count, updated_files, the items jfti.set_tags
\* was called for and whether it raised; cancel is the turn in which the
\* Cancel button is found pressed.
RECURSIVE TagLoop(_, _, _, _, _, _, _, _)
TagLoop(selected, n, st, tags_to_add, tags_to_remove, cancel, now, sz) ==
    IF n > Len(selected) THEN st
    ELSE LET k == selected[n]
             path == st.items[k].path
             old_tags == st.items[k].tags
             new_tags == NewTags(old_tags, tags_to_add, tags_to_remove)
             added_tags == new_tags \ old_tags
             removed_tags == old_tags \ new_tags
             step == [fs |-> [st.fs EXCEPT ![path] = jfti_set_tags(@, new_tags, now, sz)],
                      items |-> [st.items EXCEPT ![k].tags = new_tags],
                      new_tag_count |->
                          Update(Update(st.new_tag_count, [t \in added_tags |-> 1]),
                                 [t \in removed_tags |-> -1]),
                      updated_files |->
                          [q \in DOMAIN st.updated_files \cup {path} |->
                              IF q = path THEN new_tags ELSE st.updated_files[q]],
                      set_tags_calls |-> Append(st.set_tags_calls, k),
                      raised |-> FALSE]
             after == IF old_tags # new_tags THEN step ELSE st
         IN  IF old_tags # new_tags /\ jfti_set_tags_raises(st.fs[path])
             THEN [st EXCEPT !.new_tag_count = step.new_tag_count,
                             !.set_tags_calls = step.set_tags_calls,
                             !.raised = TRUE]
             ELSE IF cancel = n THEN after
             ELSE TagLoop(selected, n + 1, after, tags_to_add, tags_to_remove, cancel, now, sz)

\* lines 499-508: the document with the tags of the updated files patched
PatchCache(doc, updated_files, order) ==
    [state |-> "ok",
     images |-> [p \in DOMAIN doc.images |->
                    IF p \in DOMAIN updated_files
                    THEN [doc.images[p] EXCEPT
                             !.tags = SelectSeq(order, LAMBDA t : t \in updated_files[p])]
                    ELSE doc.images[p]]]

\* lines 511-531: the tag list patched with the count differences; the row
\* taken from the top is put back on top
PatchTagList(rows, new_tag_count, created_tags) ==
    LET untagged_item == Head(rows)
        rest == Tail(rows)
        counted == [k \in DOMAIN rest |->
                       [rest[k] EXCEPT !.count = @ + Get(new_tag_count, rest[k].tag)]]
        kept == SelectSeq(counted, LAMBDA r : ~(Get(new_tag_count, r.tag) # 0 /\ r.count <= 0))
        created == {create_tag(t, Get(new_tag_count, t)) :
                       t \in {u \in created_tags : Get(new_tag_count, u) > 0}}
    IN  {<<untagged_item>> \o s :
            s \in UNION {sortItems(kept \o c) : c \in Orderings(created)}}

\* what the dialog can hand over for a selection: the listed tags are the
\* keys of tag_count and the tags typed in; a tag is added when checked,
\* removed when unchecked, and can stay half checked when only a part of the
\* selection carries it
DialogResults(selected) ==
    {r \in [add : SUBSET Tags, remove : SUBSET Tags] :
        /\ r.add \cap r.remove = {}
        /\ DOMAIN tag_count \subseteq r.add \cup r.remove \cup
              {t \in Tags : \E j, k \in DOMAIN selected :
                               /\ t \in items[selected[j]].tags
                               /\ t \notin items[selected[k]].tags}}

\* show_tagging_dialog with the clock and the sizes of the rewritten files
\* taken from the given sets
TagEditAt(clock, sizes) ==
    /\ Alive
    /\ ~progress_shown
    /\ edits < MaxEdits
    /\ edits' = edits + 1
    /\ undisturbed' = FALSE
    /\ quiet' = 0
    /\ \E chosen \in (SUBSET DOMAIN items) \ {{}} : \E selected \in Orderings(chosen) :
       \E r \in DialogResults(selected) : \E cancel \in DOMAIN selected :
       \E now \in clock : \E sz \in sizes : \E order \in Orderings(Tags) :
          LET created_tags == r.add \ DOMAIN tag_count
              done == TagLoop(selected, 1,
                              [fs |-> fs, items |-> items, new_tag_count |-> NoCount,
                               updated_files |-> [q \in {} |-> {}],
                               set_tags_calls |-> <<>>, raised |-> FALSE],
                              r.add, r.remove, cancel, now, sz)
          IN  /\ fs' = done.fs
              /\ last_edit' = [selected |-> selected, tags_to_add |-> r.add,
                               tags_to_remove |-> r.remove, cancel |-> cancel,
                               new_tag_count |-> done.new_tag_count,
                               updated_files |-> done.updated_files,
                               set_tags_calls |-> done.set_tags_calls,
                               raised |-> done.raised]
              /\ IF done.raised
                 THEN \* ImageError leaves the slot; nothing catches it
                      /\ fault' = "exception"
                      /\ items' = done.items
                      /\ UNCHANGED <<CACHE, tag_list, tag_count>>
                 ELSE IF DOMAIN done.updated_files = {} \/ CACHE.state = "nofile"
                 THEN /\ items' = done.items
                      /\ UNCHANGED <<CACHE, fault, tag_list, tag_count>>
                 ELSE IF CACHE.state = "truncated"
                 THEN \* json.loads raises
                      /\ fault' = "exception"
                      /\ items' = done.items
                      /\ UNCHANGED <<CACHE, tag_list, tag_count>>
                 ELSE /\ fault' = fault
                      /\ CACHE' = PatchCache(CACHE, done.updated_files, order)
                      /\ tag_count' = Update(tag_count, done.new_tag_count)
                      /\ \E rows \in PatchTagList(tag_list, done.new_tag_count, created_tags) :
                            LET view == update_tag_filter(done.items, rows)
                            IN  /\ items' = view.items
                                /\ tag_list' = view.tag_list
    /\ UNCHANGED <<paths, tv_vars, gen_vars, thumb_vars, scan_vars, ui_vars, reports, calls, fsops, requested, started, finished,
                   pre_scan, saved, prev_saved>>

TagEdit == TagEditAt(Times, Sizes)

\* SettingsWindow.clear_cache: QMessageBox.question returns a button, which
\* is true whichever it is, so the file is unlinked on either answer
ClearCache ==
    /\ Alive
    /\ ~progress_shown
    /\ IF CACHE.state = "nofile"
       THEN \* unlink raises FileNotFoundError
            fault' = "exception" /\ CACHE' = CACHE
       ELSE fault' = fault /\ CACHE' = NoDocument
    /\ UNCHANGED <<fs, paths, tv_vars, gen_vars, thumb_vars, scan_vars, ui_vars, view_vars, hist_vars>>

(***************************************************************************)
(* The thumbnail loader.  A thumbnail file is named by the md5 of the      *)
(* file:// URI of its image; distinct paths are taken to have distinct     *)
(* names, so the files are kept by path.  A thumbnail carries the pixels   *)
(* of its image, scaled, and the Thumb::MTime and Thumb::URI chunks.       *)
(***************************************************************************)
ImagePaths == {p \in Paths : suffix_lower[p] \in {".png", ".jpg"}}

NoThumbnail == [exists |-> FALSE, uri |-> "", mtime |-> 0, pixels |-> <<0, 0>>]

\* ImageLoader.fail_icon
fail_icon == [pixels |-> <<-2, -2>>]

\* no icon: the turn emitted no signal
NoIcon == [pixels |-> <<0, 0>>]

NoIcons == [p \in {} |-> NoIcon]

\* try_to_load_image: QPixmap loads a readable image; when it loads nothing
\* the file is opened for its magic bytes, which raises if it cannot be opened
try_to_load_image(f) ==
    IF ~f.exists \/ f.kind = "oserr" THEN [raises |-> TRUE, loaded |-> FALSE, pixmap |-> <<0, 0>>]
    ELSE IF f.kind = "bad" THEN [raises |-> FALSE, loaded |-> FALSE, pixmap |-> <<0, 0>>]
    ELSE [raises |-> FALSE, loaded |-> TRUE, pixmap |-> <<f.w, f.h>>]

\* generate_thumbnail: the file it writes for an image.  The orientation is
\* asked of thumb_path, a PNG without Exif data, so nothing is rotated.
generate_thumbnail(path, f) ==
    LET img == try_to_load_image(f)
    IN  [raises |-> img.raises,
         success |-> img.loaded,
         file |-> IF img.loaded
                  THEN [exists |-> TRUE, uri |-> path, mtime |-> f.mtime, pixels |-> img.pixmap]
                  ELSE NoThumbnail]

\* ImageLoader.make_thumb: the pixels of the thumbnail file drawn on base_thumb
make_thumb(thumb) == [pixels |-> thumb.pixels]

\* cached_thumbs[path] = icon
WithIcon(cached, path, icon) ==
    [q \in DOMAIN cached \cup {path} |-> IF q = path THEN icon ELSE cached[q]]

Hit_Never(skip_cache, path, cached) == FALSE

\* line 157: the request is answered from cached_thumbs
Hit(skip_cache, path, cached) == ~skip_cache /\ path \in DOMAIN cached

MustGenerate_Always(skip_cache, is_file) == TRUE

\* line 165: the thumbnail is generated
MustGenerate(skip_cache, is_file) == skip_cache \/ ~is_file

NoTurn == [path |-> "", skip_cache |-> FALSE, icon |-> NoIcon, io |-> {}]

\* thumb_view.load_index queues a request for every image it lists, all with
\* the flag the scan was asked with
image_queued ==
    /\ Alive
    /\ batch = <<>>
    /\ loads < MaxLoads
    /\ \E skip_thumb_cache \in BOOLEAN :
          batch' = [k \in DOMAIN Loadable(CACHE.images) |->
                       [path |-> Loadable(CACHE.images)[k], skip_cache |-> skip_thumb_cache]]
    /\ loads' = loads + 1
    /\ UNCHANGED <<fs, CACHE, paths, tv_vars, gen_vars, fault, scan_vars, ui_vars, view_vars, hist_vars,
                   thumbs, cached_thumbs, last_thumb>>

\* load_image, lines 156-176: one turn of the loop over imgs
LoadOne ==
    /\ Alive
    /\ batch # <<>>
    /\ LET path == Head(batch).path
           skip_cache == Head(batch).skip_cache
           gen == generate_thumbnail(path, fs[path])
           turn(icon, io) == [path |-> path, skip_cache |-> skip_cache, icon |-> icon,
                              io |-> io]
           is_file == IF skip_cache THEN {} ELSE {"thumb_path.is_file"}
       IN  IF Hit(skip_cache, path, cached_thumbs)
           THEN /\ last_thumb' = turn(cached_thumbs[path], {})
                /\ batch' = Tail(batch)
                /\ UNCHANGED <<fault, thumbs, cached_thumbs>>
           ELSE IF MustGenerate(skip_cache, thumbs[path].exists)
           THEN IF gen.raises
                THEN \* path.open raises in try_to_load_image; nothing catches it
                     /\ fault' = "exception"
                     /\ last_thumb' = turn(NoIcon, is_file \cup {"path.read"})
                     /\ UNCHANGED <<batch, thumbs, cached_thumbs>>
                ELSE IF gen.success
                THEN /\ thumbs' = [thumbs EXCEPT ![path] = gen.file]
                     /\ cached_thumbs' = WithIcon(cached_thumbs, path, make_thumb(gen.file))
                     /\ last_thumb' = turn(make_thumb(gen.file),
                                           is_file \cup {"path.read", "thumb_path.write",
                                                         "thumb_path.read"})
                     /\ batch' = Tail(batch)
                     /\ fault' = fault
                ELSE /\ last_thumb' = turn(fail_icon, is_file \cup {"path.read"})
                     /\ batch' = Tail(batch)
                     /\ UNCHANGED <<fault, thumbs, cached_thumbs>>
           ELSE /\ cached_thumbs' = WithIcon(cached_thumbs, path, make_thumb(thumbs[path]))
                /\ last_thumb' = turn(make_thumb(thumbs[path]),
                                      is_file \cup {"thumb_path.read"})
                /\ batch' = Tail(batch)
                /\ UNCHANGED <<fault, thumbs>>
    /\ UNCHANGED <<fs, CACHE, paths, tv_vars, gen_vars, scan_vars, ui_vars, view_vars, hist_vars, loads>>

(***************************************************************************)
(* generate_thumbnail on its own, down to the bytes it writes.  A byte is  *)
(* a number in 0..255 and a bytes object a sequence of them.               *)
(***************************************************************************)
\* data[a:b]
Slice(data, a, b) == SubSeq(data, a + 1, b)

\* struct.pack('>I', n)
pack_I(n) == <<(n \div 16777216) % 256, (n \div 65536) % 256, (n \div 256) % 256, n % 256>>

\* struct.unpack('>I', b)[0]
unpack_I(b) == ((b[1] * 256 + b[2]) * 256 + b[3]) * 256 + b[4]

RECURSIVE SumBytes(_)
SumBytes(b) == IF b = <<>> THEN 0 ELSE (b[1] + SumBytes(Tail(b))) % 65536

\* zlib.crc32, cut down to a sum of the bytes: the chunks carry a check value
\* of four bytes computed from type and data, whose value nothing here reads
crc32(b) == SumBytes(b)

tEXt == <<116, 69, 88, 116>>

\* png_text_chunk
png_text_chunk(name, text) ==
    LET header_and_data == tEXt \o name \o <<0>> \o text
        length == pack_I(Len(header_and_data) - 4)
        crc_bytes == pack_I(crc32(header_and_data))
    IN  length \o header_and_data \o crc_bytes

Thumb_MTime == <<84, 104, 117, 109, 98, 58, 58, 77, 84, 105, 109, 101>>
Thumb_URI == <<84, 104, 117, 109, 98, 58, 58, 85, 82, 73>>
Software == <<83, 111, 102, 116, 119, 97, 114, 101>>
imgview == <<105, 109, 103, 118, 105, 101, 119>>
file_scheme == <<102, 105, 108, 101, 58, 47, 47>>

\* the bytes urllib.parse.quote leaves as they are: letters, digits, _ . - ~ /
Safe == (48..57) \cup (65..90) \cup (97..122) \cup {95, 46, 45, 126, 47}

HexDigit(n) == IF n < 10 THEN 48 + n ELSE 55 + n

quote_Plain(b) == b

\* urllib.parse.quote of the bytes of a path
RECURSIVE quote(_)
quote(b) ==
    IF b = <<>> THEN <<>>
    ELSE (IF b[1] \in Safe THEN <<b[1]>>
          ELSE <<37, HexDigit(b[1] \div 16), HexDigit(b[1] % 16)>>) \o quote(Tail(b))

\* load_image, line 162: the URI the thumbnail is named by and carries
uri_of(path) == file_scheme \o quote(path)

\* int(st_mtime), the time counted in tenths of a second: towards zero
int(tenths) == IF tenths < 0 THEN -((-tenths) \div 10) ELSE tenths \div 10

RECURSIVE Digits(_)
Digits(n) == IF n < 10 THEN <<48 + n>> ELSE Digits(n \div 10) \o <<48 + (n % 10)>>

\* str(n).encode()
str(n) == IF n < 0 THEN <<45>> \o Digits(-n) ELSE Digits(n)

\* set_rotation, as the angle of the transform
set_rotation(orientation) ==
    CASE orientation = 8 -> -90
      [] orientation = 6 -> 90
      [] orientation = 3 -> 180
      [] OTHER -> 0

\* what exiv2 can find at a path: nothing there, exiv2 failing, no output, an
\* output that is no number, or the value of Exif.Image.Orientation
Exiv2Answers ==
    {[exists |-> FALSE, exiv2 |-> "error", value |-> 0],
     [exists |-> TRUE, exiv2 |-> "error", value |-> 0],
     [exists |-> TRUE, exiv2 |-> "empty", value |-> 0],
     [exists |-> TRUE, exiv2 |-> "text", value |-> 0]}
    \cup {[exists |-> TRUE, exiv2 |-> "value", value |-> v] : v \in {1, 3, 6, 8}}

\* try_to_get_orientation: 0 stands for None
try_to_get_orientation(at) ==
    IF ~at.exists THEN 0
    ELSE IF at.exiv2 = "value" THEN at.value
    ELSE 0

\* QPixmap.transformed by a rotation
transformed(pixmap, angle) ==
    IF angle \in {90, -90}
    THEN [w |-> pixmap.h, h |-> pixmap.w, px |-> pixmap.px, angle |-> angle]
    ELSE [w |-> pixmap.w, h |-> pixmap.h, px |-> pixmap.px, angle |-> angle]

\* QPixmap.scaled(THUMB_SIZE, KeepAspectRatio)
scaled(pixmap) ==
    IF pixmap.w * 128 > pixmap.h * 192
    THEN [pixmap EXCEPT !.w = 192, !.h = (pixmap.h * 192) \div pixmap.w]
    ELSE [pixmap EXCEPT !.w = (pixmap.w * 128) \div pixmap.h, !.h = 128]

PNG_signature == <<137, 80, 78, 71, 13, 10, 26, 10>>

Chunk(type, data) == pack_I(Len(data)) \o type \o data \o pack_I(crc32(type \o data))

\* QPixmap.save(buf, 'PNG'): the signature, IHDR with the dimensions, the
\* pixels, IEND
PNG_save(pixmap) ==
    PNG_signature
    \o Chunk(<<73, 72, 68, 82>>, pack_I(pixmap.w) \o pack_I(pixmap.h) \o <<8, 6, 0, 0, 0>>)
    \o Chunk(<<73, 68, 65, 84>>, <<pixmap.px, (pixmap.angle + 360) % 256>>)
    \o Chunk(<<73, 69, 78, 68>>, <<>>)

InsertAt_AfterSignature(data) == 8

\* generate_thumbnail, lines 112-114: the end of the first chunk
InsertAt(data) == 8 + 12 + unpack_I(Slice(data, 8, 12))

\* generate_thumbnail, lines 99-122, for an image that has been loaded
thumbnail_bytes(image, uri_path, at_thumb_path) ==
    LET orientation == try_to_get_orientation(at_thumb_path)
        angle == IF orientation # 0 THEN set_rotation(orientation) ELSE 0
        scaled_pixmap == scaled(transformed(image.pixmap, angle))
        data == PNG_save(scaled_pixmap)
        offset == InsertAt(data)
        mtime == png_text_chunk(Thumb_MTime, str(int(image.mtime)))
        uri == png_text_chunk(Thumb_URI, uri_path)
        software == png_text_chunk(Software, imgview)
    IN  [written |-> TRUE,
         name |-> [md5 |-> uri_path],
         pixmap |-> scaled_pixmap,
         encoded |-> data,
         data |-> Slice(data, 0, offset) \o mtime \o uri \o software
                  \o Slice(data, offset, Len(data)),
         mode |-> <<6, 0, 0>>]

NoInput ==
    [path |-> <<>>, at_thumb_path |-> [exists |-> FALSE, exiv2 |-> "error", value |-> 0],
     image |-> [orientation |-> 0, mtime |-> 0, pixmap |-> [w |-> 0, h |-> 0, px |-> 0]]]

NoOutput ==
    [written |-> FALSE, name |-> [md5 |-> <<>>],
     pixmap |-> [w |-> 0, h |-> 0, px |-> 0, angle |-> 0],
     encoded |-> <<>>, data |-> <<>>, mode |-> <<0, 0, 0>>]

\* one call of generate_thumbnail from load_image, lines 161-166
Generate ==
    /\ Alive
    /\ ~gen_out.written
    /\ gen_out' = thumbnail_bytes(gen_in.image, uri_of(gen_in.path), gen_in.at_thumb_path)
    /\ UNCHANGED <<fs, CACHE, paths, tv_vars, fault, scan_vars, ui_vars, view_vars, hist_vars,
                   thumb_vars, gen_in>>

(***************************************************************************)
(* The thumbnail view: ThumbView.load_index fills it from the cache and    *)
(* queues a batch for the loader, whose answers add_thumbnail takes.       *)
(***************************************************************************)
\* ThumbView.default_icon
default_icon == [pixels |-> <<-3, -3>>]

\* the smallest of a set of numbers
Least(S) == CHOOSE n \in S : \A m \in S : n <= m

\* the files jfti.identify_image_format cannot open
Unopenable == {p \in ImagePaths : fs[p].exists /\ fs[p].kind = "oserr"}

\* the files that may begin with GIF and not with GIF89a: of a file the
\* metadata reader fails on, the first bytes are not known
MaybeOldGIF == {p \in ImagePaths : fs[p].exists /\ fs[p].kind = "bad"}

\* ThumbView.load_index
ThumbView_load_index ==
    /\ Alive
    /\ tv_calls < MaxViewLoads
    /\ tv_calls' = tv_calls + 1
    /\ IF CACHE.state = "nofile"
       THEN \* line 465-466
            UNCHANGED <<fault, tv_batch, tv_items, tv_progress, image_queue>>
       ELSE /\ tv_batch' = tv_batch + 1
            /\ IF CACHE.state = "truncated"
               THEN \* Cache.load raises after clear()
                    /\ fault' = "exception"
                    /\ tv_items' = <<>>
                    /\ UNCHANGED <<tv_progress, image_queue>>
               ELSE \E skip_thumb_cache \in BOOLEAN, gif87a \in SUBSET MaybeOldGIF :
                       LET listed == Loadable(CACHE.images)
                           raising == {k \in DOMAIN listed :
                                          listed[k] \in Unopenable \cup gif87a}
                           last == IF raising = {} THEN Len(listed) ELSE Least(raising)
                           rows == [k \in 1..last |->
                                       [path |-> listed[k], icon |-> default_icon]]
                       IN  IF raising # {}
                           THEN \* line 494 raises after appendRow; nothing catches it
                                /\ fault' = "exception"
                                /\ tv_items' = rows
                                /\ UNCHANGED <<tv_progress, image_queue>>
                           ELSE /\ fault' = fault
                                /\ tv_items' = rows
                                /\ image_queue' = image_queue \o
                                      [k \in 1..Len(listed) |->
                                          [index |-> k - 1, batch |-> tv_batch + 1,
                                           skip_cache |-> skip_thumb_cache,
                                           path |-> listed[k]]]
                                /\ tv_progress' =
                                      IF Len(rows) > 0
                                      THEN [value |-> 0, max |-> Len(rows), shown |-> TRUE]
                                      ELSE [tv_progress EXCEPT !.shown = FALSE]
    /\ UNCHANGED <<fs, CACHE, paths, scan_vars, ui_vars, view_vars, hist_vars, thumb_vars,
                   gen_vars, ready, tv_dropped>>

\* load_image, lines 156-176: one turn of the loop, with the signal it emits
thumbnail_ready ==
    /\ Alive
    /\ image_queue # <<>>
    /\ LET req == Head(image_queue)
           gen == generate_thumbnail(req.path, fs[req.path])
           emit(icon) ==
               /\ ready' = Append(ready, [index |-> req.index, batch |-> req.batch,
                                          icon |-> icon])
               /\ image_queue' = Tail(image_queue)
               /\ fault' = fault
       IN  IF Hit(req.skip_cache, req.path, cached_thumbs)
           THEN /\ emit(cached_thumbs[req.path])
                /\ UNCHANGED <<thumbs, cached_thumbs>>
           ELSE IF MustGenerate(req.skip_cache, thumbs[req.path].exists)
           THEN IF gen.raises
                THEN /\ fault' = "exception"
                     /\ UNCHANGED <<image_queue, ready, thumbs, cached_thumbs>>
                ELSE IF gen.success
                THEN /\ thumbs' = [thumbs EXCEPT ![req.path] = gen.file]
                     /\ cached_thumbs' = WithIcon(cached_thumbs, req.path, make_thumb(gen.file))
                     /\ emit(make_thumb(gen.file))
                ELSE /\ emit(fail_icon)
                     /\ UNCHANGED <<thumbs, cached_thumbs>>
           ELSE /\ cached_thumbs' = WithIcon(cached_thumbs, req.path,
                                             make_thumb(thumbs[req.path]))
                /\ emit(make_thumb(thumbs[req.path]))
                /\ UNCHANGED thumbs
    /\ UNCHANGED <<fs, CACHE, paths, scan_vars, ui_vars, view_vars, hist_vars, gen_vars,
                   batch, loads, last_thumb, tv_batch, tv_items, tv_progress, tv_calls,
                   tv_dropped>>

Stale_Never(event_batch, current) == FALSE

\* add_thumbnail, line 514
Stale(event_batch, current) == event_batch # current

\* ThumbView.add_thumbnail
add_thumbnail ==
    /\ Alive
    /\ ready # <<>>
    /\ ready' = Tail(ready)
    /\ LET ev == Head(ready)
           done == tv_progress.value + 1
       IN  IF Stale(ev.batch, tv_batch)
           THEN /\ tv_dropped' = tv_dropped + 1
                /\ UNCHANGED <<fault, tv_items, tv_progress>>
           ELSE IF ev.index >= Len(tv_items)
           THEN \* self.item(index) is no item
                /\ fault' = "exception"
                /\ UNCHANGED <<tv_items, tv_progress, tv_dropped>>
           ELSE /\ tv_items' = [tv_items EXCEPT ![ev.index + 1].icon = ev.icon]
                /\ tv_dropped' = tv_dropped
                /\ tv_progress' = [tv_progress EXCEPT
                                      !.value = done,
                                      !.shown = IF done = Len(tv_items) THEN FALSE ELSE @]
                /\ fault' = fault
    /\ UNCHANGED <<fs, CACHE, paths, scan_vars, ui_vars, view_vars, hist_vars, thumb_vars,
                   gen_vars, tv_batch, image_queue, tv_calls>>

(***************************************************************************)
(* The environment.                                                        *)
(***************************************************************************)
\* a file is created or rewritten by another program
WriteFile ==
    /\ Alive
    /\ fsops < MaxFsOps
    /\ \E p \in Volatile : \E f \in FilesAt(p) :
          /\ f # fs[p]
          /\ f.ctime >= f.mtime
          /\ fs' = [fs EXCEPT ![p] = f]
    /\ fsops' = fsops + 1
    /\ undisturbed' = FALSE
    /\ quiet' = 0
    /\ UNCHANGED <<CACHE, paths, tv_vars, gen_vars, thumb_vars, fault, scan_vars, ui_vars, view_vars, edits, last_edit, reports, calls, requested,
                   started, finished, pre_scan, saved, prev_saved>>

\* a file is deleted by another program
DeleteFile ==
    /\ Alive
    /\ fsops < MaxFsOps
    /\ \E p \in Volatile :
          /\ fs[p].exists
          /\ fs' = [fs EXCEPT ![p] = Absent]
    /\ fsops' = fsops + 1
    /\ undisturbed' = FALSE
    /\ quiet' = 0
    /\ UNCHANGED <<CACHE, paths, tv_vars, gen_vars, thumb_vars, fault, scan_vars, ui_vars, view_vars, edits, last_edit, reports, calls, requested,
                   started, finished, pre_scan, saved, prev_saved>>

\* the process is stopped from outside
Kill ==
    /\ Alive
    /\ fault' = "killed"
    /\ UNCHANGED <<fs, CACHE, paths, tv_vars, gen_vars, thumb_vars, scan_vars, ui_vars, view_vars, hist_vars>>

(***************************************************************************)
(* The specification of the index.                                         *)
(***************************************************************************)
InitFiles == {File(1, 1, 1, body) : body \in Contents}

\* ThumbView.__init__
EmptyView ==
    /\ tv_batch = 0
    /\ tv_items = <<>>
    /\ tv_progress = [value |-> 0, max |-> 0, shown |-> FALSE]
    /\ image_queue = <<>>
    /\ ready = <<>>
    /\ tv_calls = 0
    /\ tv_dropped = 0

\* ImageLoader.__init__, with no thumbnail written yet
ColdLoader ==
    /\ EmptyView
    /\ gen_in = NoInput
    /\ gen_out = NoOutput
    /\ thumbs = [p \in ImagePaths |-> NoThumbnail]
    /\ cached_thumbs = NoIcons
    /\ batch = <<>>
    /\ loads = 0
    /\ last_thumb = NoTurn

\* the state MainWindow.__init__ leaves: a first scan requested, nothing loaded
Init ==
    /\ fs \in [Paths -> {Absent, TextFile} \cup InitFiles]
    /\ fs[P1] \in {f \in InitFiles : f.kind = "bad" \/ f.tags # {}}
    /\ fs[P2] \in {Absent} \cup InitFiles
    /\ fs[P3] = TextFile
    /\ CACHE = NoDocument
    /\ paths \in (SUBSET Roots) \ {{}}
    /\ fault = "none"
    /\ pc = "idle"
    /\ cache = NoImages
    /\ image_paths = <<>>
    /\ count = 0
    /\ queued = 1
    /\ done_pending = 0
    /\ progress_shown = TRUE
    /\ items = <<>>
    /\ tag_list = <<>>
    /\ tag_count = [t \in {} |-> 0]
    /\ calls = NoCalls
    /\ fsops = 0
    /\ edits = 0
    /\ last_edit = NoEdit
    /\ reports = <<>>
    /\ requested = 1
    /\ started = 0
    /\ finished = 0
    /\ pre_scan = NoDocument
    /\ undisturbed = TRUE
    /\ quiet = 0
    /\ saved = NoImages
    /\ prev_saved = NoImages
    /\ ColdLoader

Next ==
    \/ StartScan
    \/ Search
    \/ IndexOne
    \/ EndIndexing
    \/ SaveOpen
    \/ SaveWrite
    \/ EmitDone
    \/ Reload
    \/ DismissProgress
    \/ WriteFile
    \/ DeleteFile
    \/ Kill

Spec == Init /\ [][Next]_vars


(***************************************************************************)
(* The specification of the main window with its indexer: scans, loads of  *)
(* the index and tag edits, with files deleted by other programs.          *)
(***************************************************************************)
InitWindow ==
    /\ Init
    /\ fs[P1] = File(1, 1, 1, [tags |-> {"a", "b"}, w |-> 2, h |-> 1, kind |-> "ok"])
    /\ fs[P2].exists /\ fs[P2].kind \in {"ok", "bad"}
    /\ paths # {R1}

NextWindow ==
    \/ StartScan
    \/ Search
    \/ IndexOne
    \/ EndIndexing
    \/ SaveOpen
    \/ SaveWrite
    \/ EmitDone
    \/ Reload
    \/ DismissProgress
    \/ load_index
    \/ (edits < MaxWindowEdits /\ TagEdit)
    \/ DeleteFile
    \/ Kill

SpecWindow == InitWindow /\ [][NextWindow]_vars

(***************************************************************************)
(* The specification of the tag filter: a loaded index and clicks on the   *)
(* tag list.                                                               *)
(***************************************************************************)
\* the libraries a scan can have indexed
Libraries ==
    {lib \in [Paths -> {Absent, TextFile} \cup
                       {File(1, 1, 1, [tags |-> T, w |-> 2, h |-> 1, kind |-> "ok"]) :
                            T \in SUBSET Tags}] :
        /\ lib[P3] = TextFile
        /\ \A p \in Paths \ {P3} : lib[p] # TextFile}

\* an index scanned and loaded, before any thumbnail is asked for
LoadedIndex ==
    /\ fs \in Libraries
    /\ paths = Roots
    /\ cache = [p \in {q \in Paths \ {P3} : fs[q].exists} |->
                   CachedImageData(sorted(fs[p].tags), fs[p].size, fs[p].w, fs[p].h,
                                   fs[p].mtime, fs[p].ctime)]
    /\ CACHE = Cache_save(cache)
    /\ fault = "none"
    /\ pc = "idle"
    /\ image_paths = <<>>
    /\ count = 0
    /\ queued = 0
    /\ done_pending = 0
    /\ progress_shown = FALSE
    /\ items = [k \in DOMAIN Loadable(CACHE.images) |->
                   [path |-> Loadable(CACHE.images)[k],
                    tags |-> Range(CACHE.images[Loadable(CACHE.images)[k]].tags),
                    hidden |-> FALSE]]
    /\ tag_list \in set_tags(items)
    /\ tag_count = CountTags(items)
    /\ calls = NoCalls
    /\ fsops = 0
    /\ edits = 0
    /\ last_edit = NoEdit
    /\ reports = <<>>
    /\ requested = 1
    /\ started = 1
    /\ finished = 1
    /\ pre_scan = NoDocument
    /\ undisturbed = TRUE
    /\ quiet = 1
    /\ saved = CACHE.images
    /\ prev_saved = NoImages

InitFilter == LoadedIndex /\ ColdLoader

NextFilter == Click

SpecFilter == InitFilter /\ [][NextFilter]_vars

(***************************************************************************)
(* The specification of the tag edit: a loaded index and tag edits, with   *)
(* the cache cleared from the settings window and files deleted by other   *)
(* programs.                                                               *)
(***************************************************************************)
InitEdit == InitFilter

\* the edits are made at one time of the clock: no scan reads the stamps here
NextEdit ==
    \/ TagEditAt({MaxTime}, {MaxSize})
    \/ ClearCache
    \/ DeleteFile

SpecEdit == InitEdit /\ [][NextEdit]_vars

(***************************************************************************)
(* The specification of the thumbnail loader: a loaded index, thumbnail    *)
(* files left by earlier sessions, batches of requests, and files written  *)
(* and deleted by other programs.                                          *)
(***************************************************************************)
\* the thumbnails an earlier session can have written for a path
EarlierThumbnails(p) ==
    {generate_thumbnail(p, f).file :
        f \in {g \in FilesAt(p) : g.kind = "ok" /\ g.size = 1 /\ g.ctime = MaxTime}}

InitThumb ==
    /\ LoadedIndex
    /\ \A p \in Paths : fs[p].tags = {}
    /\ thumbs \in [ImagePaths -> UNION {EarlierThumbnails(p) : p \in ImagePaths}
                                   \cup {NoThumbnail}]
    /\ \A p \in ImagePaths : thumbs[p] \in EarlierThumbnails(p) \cup {NoThumbnail}
    /\ cached_thumbs = NoIcons
    /\ batch = <<>>
    /\ loads = 0
    /\ last_thumb = NoTurn
    /\ gen_in = NoInput
    /\ gen_out = NoOutput
    /\ EmptyView

NextThumb ==
    \/ image_queued
    \/ LoadOne
    \/ WriteFile
    \/ DeleteFile

SpecThumb == InitThumb /\ [][NextThumb]_vars

(***************************************************************************)
(* The specification of generate_thumbnail on its own: one call, for any   *)
(* image, path and state of thumb_path.  Times are in tenths of a second.  *)
(***************************************************************************)
\* "/r1/a.png", "/r1/a b.png", "/r1/é.jpg"
GenPaths == {<<47, 114, 49, 47, 97, 46, 112, 110, 103>>, <<47, 114, 49, 47, 97, 32, 98, 46, 112, 110, 103>>, <<47, 114, 49, 47, 195, 169, 46, 106, 112, 103>>}

GenTimes == {-15, 0, 19, 123}

GenPixmaps == {[w |-> 192, h |-> 128, px |-> 1],
               [w |-> 240, h |-> 120, px |-> 2],
               [w |-> 100, h |-> 200, px |-> 3]}

Orientations == {0, 1, 3, 6, 8}

InitGen ==
    /\ LoadedIndex
    /\ fs[P1].exists /\ fs[P1].tags = {}
    /\ ~fs[P2].exists
    /\ thumbs = [p \in ImagePaths |-> NoThumbnail]
    /\ cached_thumbs = NoIcons
    /\ batch = <<>>
    /\ loads = 0
    /\ last_thumb = NoTurn
    /\ gen_in \in [path : GenPaths,
                   at_thumb_path : Exiv2Answers,
                   image : [orientation : Orientations, mtime : GenTimes,
                            pixmap : GenPixmaps]]
    /\ gen_out = NoOutput
    /\ EmptyView

NextGen == Generate

SpecGen == InitGen /\ [][NextGen]_vars

(***************************************************************************)
(* The specification of the thumbnail view: a scanned library, loads of    *)
(* the view, the loader's answers, the cache cleared from the settings     *)
(* window, and files written and deleted by other programs.                *)
(***************************************************************************)
InitView ==
    /\ LoadedIndex
    /\ \A p \in Paths : fs[p].tags = {}
    /\ fs[P1].exists
    /\ ColdLoader

NextView ==
    \/ ThumbView_load_index
    \/ thumbnail_ready
    \/ add_thumbnail
    \/ ClearCache
    \/ WriteFile
    \/ DeleteFile

SpecView == InitView /\ [][NextView]_vars

(***************************************************************************)
(* Properties of the index.                                                *)
(***************************************************************************)
\* the file whose turn it is in the indexing loop
Current == image_paths[count + 1]

\* the indexer thread takes a turn of the indexing loop
IndexTurn ==
    /\ pc = "index"
    /\ count < Len(image_paths)
    /\ count' # count \/ fault' = "exception"

\* the record of a file matches its stat values
Matches(p) ==
    /\ p \in DOMAIN cache
    /\ cache[p].mtime = fs[p].mtime
    /\ cache[p].size = fs[p].size

\* the record a successful extraction of a file gives
FreshRecord(f) ==
    [tags |-> SelectSeq(TagOrder, LAMBDA t : t \in f.tags), size |-> f.size,
     w |-> f.w, h |-> f.h, mtime |-> f.mtime, ctime |-> f.ctime]

OthersKept(p) ==
    /\ DOMAIN cache' \ {p} = DOMAIN cache \ {p}
    /\ \A q \in DOMAIN cache \ {p} : cache'[q] = cache[q]
    /\ \A q \in Paths \ {p} : calls'[q] = calls[q]

\* what one turn does to a file that can be stat'ed, with the number of
\* extractions the file has had in this scan after the turn
StalenessTurn(after) ==
    (IndexTurn /\ fs[Current].exists) =>
        /\ Matches(Current) => (calls' = calls /\ cache' = cache)
        /\ ~Matches(Current) =>
              /\ calls'[Current] = after
              /\ OthersKept(Current)
              /\ fs[Current].kind = "ok" =>
                    (Current \in DOMAIN cache' /\ cache'[Current] = FreshRecord(fs[Current]))
              /\ fs[Current].kind # "ok" => cache' = cache

\* C1 as stated: a file whose record matches its mtime and size is never
\* extracted and its record is kept; any other file found by the scan is
\* extracted exactly once in that scan and, on success, its record replaced.
C1_Original == [][StalenessTurn(1)]_vars

\* C1 as amended: a file whose record matches its mtime and size is not
\* extracted and its record is kept; any other file is extracted once for each
\* time the search lists it, and on success its whole record is replaced.
C1_Staleness == [][StalenessTurn(calls[Current] + 1)]_vars

\* a second scan has skipped P1 as fresh and extracted P2, listed from both
\* roots, twice
C1_Witness ==
    /\ pc = "save"
    /\ started = 2
    /\ P1 \in Range(image_paths) /\ P1 \in DOMAIN cache /\ calls[P1] = 0
    /\ calls[P2] = 2

C3_Pruned ==
    (pc = "idle" /\ finished > 0 /\ undisturbed /\ CACHE.state = "ok") =>
        \A p \in DOMAIN CACHE.images : fs[p].exists

\* C4: a turn of the indexing loop on a file that raises an OSError (it is
\* gone, or cannot be read) skips the file, keeps the records and goes on.
C4_OSErrorSkipped ==
    [][(IndexTurn /\ (~fs[Current].exists \/ (fs[Current].kind = "oserr" /\ ~Matches(Current))))
          => (fault' = "none" /\ pc' = "index" /\ count' = count + 1 /\ cache' = cache)]_vars

\* C5: a turn of the indexing loop on a file whose extraction raises another
\* exception keeps every record as it was and goes on to the next file; the
\* scan reaches its save only with every listed file handled.
C5_BadFileSkipped ==
    /\ [][(IndexTurn /\ fs[Current].exists /\ fs[Current].kind = "bad" /\ ~Matches(Current))
             => (fault' = "none" /\ pc' = "index" /\ count' = count + 1 /\ cache' = cache
                 /\ image_paths' = image_paths)]_vars
    /\ [](pc \in {"save", "write", "emit"} => count = Len(image_paths))

\* a scan has saved after extracting one file and failing on another
C5_Witness ==
    /\ pc = "emit"
    /\ \E p \in Paths : calls[p] > 0 /\ fs[p].exists /\ fs[p].kind = "bad" /\ undisturbed
    /\ \E q \in DOMAIN CACHE.images : calls[q] = 1

\* C6: whenever the process stops, the document on disk is the complete
\* document the scan found or the complete document the scan made.
C6_CrashSafe ==
    fault = "killed" => (CACHE = pre_scan \/ CACHE = Cache_save(cache))

\* C7: at most one scan is in progress at any time, and a scan that was
\* requested while another was running begins only once that one has saved
\* the document and emitted done.
C7_SingleFlight ==
    /\ [](started - finished \in {0, 1})
    /\ [][started' # started =>
             (started = finished /\ pc = "idle" /\ started' = started + 1)]_vars

\* a scan is running with another request waiting in the queue of the indexer
C7_Witness ==
    /\ pc = "index"
    /\ started = 1 /\ finished = 0
    /\ queued = 1

\* C8: from a scan's load of the document to the end of its save nothing
\* else writes the document; no tag edit runs in that window.
C8_ExclusiveOwnership ==
    [][(pc \in {"search", "index", "save", "write"}) =>
          (edits' = edits /\ (CACHE' # CACHE => (pc \in {"save", "write"} /\ pc' # pc)))]_vars

\* the tags, the whitelist, the blacklist and the untagged state for which
\* C9 says an image is hidden
Excluded(T, W, B, U) ==
    \/ U = "WHITELISTED" /\ T # {}
    \/ U = "BLACKLISTED" /\ T = {}
    \/ W # {} /\ \E t \in W : t \notin T
    \/ B # {} /\ \E t \in B : t \in T

\* C9: an image is visible exactly when none of the four exclusions holds;
\* an image with no tags is hidden under every whitelist that is not empty,
\* and an image with a blacklisted tag is hidden whatever the whitelist is.
C9_FilterPredicate ==
    /\ \A T \in SUBSET Tags : \A W \in SUBSET Tags : \A B \in SUBSET Tags :
       \A U \in TagStates :
          /\ filterAcceptsRow(T, W, B, U) <=> ~Excluded(T, W, B, U)
          /\ (T = {} /\ W # {}) => ~filterAcceptsRow(T, W, B, U)
          /\ (T \cap B # {}) => ~filterAcceptsRow(T, W, B, U)
    /\ \A k \in DOMAIN items :
          items[k].hidden <=> Excluded(items[k].tags, whitelist(tag_list),
                                       blacklist(tag_list), untagged_state(tag_list))

\* two tags are whitelisted: the image with both is visible, the image with
\* one of them is hidden
C9_Witness ==
    /\ whitelist(tag_list) = Tags
    /\ \E k \in DOMAIN items : ~items[k].hidden /\ items[k].tags = Tags
    /\ \E k \in DOMAIN items : items[k].hidden /\ items[k].tags = {"a"}

\* C10: every row of the tag list shows the number of visible images with
\* its tag, the untagged row the number of visible images without tags, and
\* recomputing the filter again changes neither the view nor the counts.
C10_VisibleCounts ==
    /\ \A k \in DOMAIN tag_list :
          tag_list[k].visible =
             IF tag_list[k].tag = ""
             THEN Cardinality({j \in DOMAIN items : ~items[j].hidden /\ items[j].tags = {}})
             ELSE Cardinality({j \in DOMAIN items :
                                  ~items[j].hidden /\ tag_list[k].tag \in items[j].tags})
    /\ update_tag_filter(items, tag_list) = [items |-> items, tag_list |-> tag_list]
    /\ LET again == update_tag_filter(items, tag_list)
       IN  update_tag_filter(again.items, again.tag_list) = again

\* a click has hidden one of two images: a row shows fewer images than carry
\* its tag
C10_Witness ==
    /\ Len(items) = 2
    /\ \E j \in DOMAIN items : items[j].hidden
    /\ \E j \in DOMAIN items : ~items[j].hidden
    /\ \E k \in DOMAIN tag_list :
          /\ tag_list[k].tag # ""
          /\ tag_list[k].visible = 1
          /\ tag_list[k].count = 2

(***************************************************************************)
(* Properties of the tag edit.                                             *)
(***************************************************************************)
\* a step that is a tag edit
EditStep == edits' # edits

\* the turn of the loop in which the last edit stopped: the turn in which
\* jfti.set_tags raised, or the turn in which Cancel was found pressed (the
\* last turn when it never was)
LastTurn(e) ==
    IF e.raised
    THEN CHOOSE n \in DOMAIN e.selected : e.selected[n] = e.set_tags_calls[Len(e.set_tags_calls)]
    ELSE e.cancel

\* the tags C11 gives an image
Edited(old, e) == {t \in Tags : (t \in old \/ t \in e.tags_to_add) /\ t \notin e.tags_to_remove}

\* C11: an image whose turn came gets the tags (old union add) minus remove;
\* when these are its old tags nothing is written for it, it has no entry in
\* updated_files, and an edit in which this is so for every image counts
\* nothing; the same edit made again after a completed edit changes nothing.
C11_EditResult ==
    [][EditStep =>
        LET e == last_edit'
        IN  /\ \A n \in 1..LastTurn(e) :
                  LET k == e.selected[n]
                      old == items[k].tags
                  IN  IF Edited(old, e) = old
                      THEN /\ k \notin Range(e.set_tags_calls)
                           /\ items[k].path \notin DOMAIN e.updated_files
                           /\ items'[k].tags = old
                           /\ fs'[items[k].path] = fs[items[k].path]
                      ELSE /\ k \in Range(e.set_tags_calls)
                           /\ (e.raised /\ n = LastTurn(e)) \/
                                 (/\ items'[k].tags = Edited(old, e)
                                  /\ e.updated_files[items[k].path] = Edited(old, e)
                                  /\ fs'[items[k].path].tags = Edited(old, e))
            /\ (\A n \in 1..LastTurn(e) :
                   Edited(items[e.selected[n]].tags, e) = items[e.selected[n]].tags)
                  => (e.new_tag_count = NoCount /\ DOMAIN e.updated_files = {}
                      /\ tag_list' = tag_list /\ CACHE' = CACHE)
            /\ (~e.raised /\ e.cancel = Len(e.selected)) =>
                  LET again == TagLoop(e.selected, 1,
                                       [fs |-> fs', items |-> items', new_tag_count |-> NoCount,
                                        updated_files |-> [q \in {} |-> {}],
                                        set_tags_calls |-> <<>>, raised |-> FALSE],
                                       e.tags_to_add, e.tags_to_remove, e.cancel,
                                       MaxTime, MaxSize)
                  IN  /\ again.items = items'
                      /\ again.fs = fs'
                      /\ again.set_tags_calls = <<>>
                      /\ DOMAIN again.updated_files = {}
                      /\ again.new_tag_count = NoCount]_vars

\* an edit of two images has written one and skipped the other
C11_Witness ==
    /\ edits > 0
    /\ Len(last_edit.selected) = 2
    /\ last_edit.cancel = 2
    /\ ~last_edit.raised
    /\ Len(last_edit.set_tags_calls) = 1
    /\ DOMAIN last_edit.updated_files # {}

\* the images of a view that carry a tag
Carriers(imgs, t) == {k \in DOMAIN imgs : t \in imgs[k].tags}

\* the change a tag edit makes to the number of images that carry a tag
Delta(t) == Cardinality(Carriers(items', t)) - Cardinality(Carriers(items, t))

\* C12: a tag edit counts +1 for each image that gains a tag and -1 for each
\* image that loses it, and while the window runs every row of a tag shows
\* as its total the number of loaded images that carry the tag.
C12_TotalCounts ==
    /\ [][(EditStep /\ ~last_edit'.raised) =>
             \A t \in Tags : Get(last_edit'.new_tag_count, t) = Delta(t)]_vars
    /\ [](Alive => \A k \in DOMAIN tag_list :
                      tag_list[k].tag # "" =>
                         tag_list[k].count = Cardinality(Carriers(items, tag_list[k].tag)))

\* C13: while the window runs the untagged row shows as its total the
\* number of loaded images without tags.
C13_UntaggedCount ==
    Alive => \A k \in DOMAIN tag_list :
                tag_list[k].tag = "" =>
                   tag_list[k].count = Cardinality({j \in DOMAIN items : items[j].tags = {}})

\* C14: while the window runs the tag list has a row for a tag exactly when
\* a loaded image carries the tag.
C14_Vocabulary ==
    Alive => \A t \in Tags :
                (\E k \in DOMAIN tag_list : tag_list[k].tag = t) <=> Carriers(items, t) # {}

\* the tag writer cannot write a file
Unwritable(f) == ~f.exists \/ f.kind = "oserr"

\* the turns of the edit e, made in the current state, in which an image has
\* to be written and cannot be
FailingTurns(e) ==
    {n \in 1..e.cancel :
        /\ Edited(items[e.selected[n]].tags, e) # items[e.selected[n]].tags
        /\ Unwritable(fs[items[e.selected[n]].path])}

\* an image and its file are as they were
Untouched(k) == items'[k] = items[k] /\ fs'[items[k].path] = fs[items[k].path]

\* C15: when the tag writer fails for an image of the selection, the error
\* leaves the tag edit, the image keeps its tags, and no later image of the
\* selection is written or changed.
C15_WriteFailure ==
    [][EditStep =>
        LET e == last_edit'
        IN  /\ e.raised <=> FailingTurns(e) # {}
            /\ e.raised =>
                  /\ fault' = "exception"
                  /\ LastTurn(e) \in FailingTurns(e)
                  /\ \A n \in FailingTurns(e) : LastTurn(e) <= n
                  /\ \A n \in LastTurn(e)..Len(e.selected) : Untouched(e.selected[n])
                  /\ \A n \in (LastTurn(e) + 1)..Len(e.selected) :
                        e.selected[n] \notin Range(e.set_tags_calls)]_vars

\* the tag writer has failed in the first turn of an edit of two images
C15_Witness ==
    /\ fault = "exception"
    /\ last_edit.raised
    /\ Len(last_edit.selected) = 2
    /\ last_edit.set_tags_calls = <<last_edit.selected[1]>>

\* an edit that was cancelled before its last turn
Cancelled(e) == ~e.raised /\ e.cancel < Len(e.selected)

\* after a cancelled edit e: no image after the turn of the cancellation is
\* written or changed, and the images edited so far have their new tags
CancelKept(e) ==
    /\ \A n \in (e.cancel + 1)..Len(e.selected) :
          /\ e.selected[n] \notin Range(e.set_tags_calls)
          /\ items'[e.selected[n]].tags = items[e.selected[n]].tags
          /\ fs'[items[e.selected[n]].path] = fs[items[e.selected[n]].path]
    /\ \A n \in 1..e.cancel :
          /\ items'[e.selected[n]].tags = Edited(items[e.selected[n]].tags, e)
          /\ e.selected[n] \in Range(e.set_tags_calls) =>
                fs'[items[e.selected[n]].path].tags = items'[e.selected[n]].tags

\* after a cancelled edit e: the edits made are in the cache records and in
\* the totals of the tag list
CancelCarried(e) ==
    /\ \A p \in DOMAIN e.updated_files :
          /\ CACHE'.state = "ok"
          /\ p \in DOMAIN CACHE'.images
          /\ Range(CACHE'.images[p].tags) = e.updated_files[p]
    /\ \A k \in DOMAIN tag_list' :
          tag_list'[k].tag # "" =>
             tag_list'[k].count = Cardinality(Carriers(items', tag_list'[k].tag))

\* C16: when Cancel is found pressed in the turn of image k, no image after
\* k is written or changed, the images edited so far keep their new tags,
\* and these edits are in the cache records and in the totals of the tag list.
C16_Cancellation ==
    [][(EditStep /\ Cancelled(last_edit')) =>
          (CancelKept(last_edit') /\ CancelCarried(last_edit'))]_vars

(***************************************************************************)
(* Properties of the scan as the window sees it.                           *)
(***************************************************************************)
\* C17: once the user has dismissed the progress dialog of a running scan,
\* which is all the window offers to call a scan off, the scan indexes no
\* further file; the records it has refreshed stay in its cache.
C17_ScanCancellation ==
    [][(pc = "index" /\ ~progress_shown) =>
          (count' = count /\ calls' = calls /\ cache' = cache)]_vars

\* the reports of one phase, in the order emitted
OfPhase(phase) == SelectSeq(reports, LAMBDA r : r.phase = phase)

PhaseRank(phase) ==
    CASE phase = "loading" -> 0
      [] phase = "searching" -> 1
      [] phase = "indexing" -> 2
      [] phase = "saving" -> 3
      [] phase = "done" -> 4

\* C18: the reports of a scan come in the order searching, indexing, saving,
\* done; the search count rises by one with every image found; the indexing
\* counter runs from 0 to total - 1, total being the final search count; no
\* indexing report follows the saving report; done is emitted once, as the
\* last signal, after Cache.save has returned.
C18_ProgressProtocol ==
    /\ [](/\ \A i, j \in DOMAIN reports :
                i < j => PhaseRank(reports[i].phase) <= PhaseRank(reports[j].phase)
          /\ \A n \in DOMAIN OfPhase("searching") : OfPhase("searching")[n].count = n
          /\ \A n \in DOMAIN OfPhase("indexing") :
                /\ OfPhase("indexing")[n].count = n - 1
                /\ OfPhase("indexing")[n].total = Len(OfPhase("searching"))
                /\ OfPhase("indexing")[n].count \in 0..(OfPhase("indexing")[n].total - 1)
          /\ pc \in {"index", "save", "write", "emit"} =>
                Len(OfPhase("searching")) = Len(image_paths)
          /\ Len(OfPhase("saving")) <= 1
          /\ Len(OfPhase("done")) <= 1
          /\ (started > 0 /\ finished = started) =>
                (/\ Len(OfPhase("searching")) = Len(image_paths)
                 /\ Len(OfPhase("indexing")) = Len(image_paths)
                 /\ Len(OfPhase("saving")) = 1
                 /\ Len(OfPhase("done")) = 1))
    /\ [][(Len(reports') > 0 /\ reports' # reports /\ reports'[Len(reports')] = Done) =>
             (pc = "emit" /\ saved = Cache_save(cache).images /\ finished' = finished + 1)]_vars

C18_Witness ==
    /\ finished = started
    /\ Len(OfPhase("searching")) >= 2
    /\ Len(OfPhase("indexing")) >= 2
    /\ Len(OfPhase("done")) = 1

(***************************************************************************)
(* Properties of the thumbnail loader.                                     *)
(***************************************************************************)
\* a turn of load_image is taken
ThumbStep == batch # <<>> /\ (batch' = Tail(batch) \/ fault' # fault)

\* C19: a request without skip_cache for a path that cached_thumbs holds is
\* answered with exactly the icon held, checks, reads and writes no file, and
\* leaves the thumbnail files, the image files and cached_thumbs as they were.
C19_MemoryHit ==
    [][(/\ ThumbStep
        /\ ~Head(batch).skip_cache
        /\ Head(batch).path \in DOMAIN cached_thumbs) =>
          (/\ last_thumb'.path = Head(batch).path
           /\ last_thumb'.icon = cached_thumbs[Head(batch).path]
           /\ last_thumb'.io = {}
           /\ fault' = fault
           /\ UNCHANGED <<thumbs, cached_thumbs, fs>>)]_vars

\* a second batch without skip_cache has answered a path from cached_thumbs
\* after its image was rewritten
C19_Witness ==
    /\ loads = 2
    /\ last_thumb.path = P2
    /\ ~last_thumb.skip_cache
    /\ last_thumb.io = {}
    /\ last_thumb.icon = cached_thumbs[P2]
    /\ fs[P2].exists
    /\ last_thumb.icon # make_thumb(generate_thumbnail(P2, fs[P2]).file)

\* C20: a thumbnail file that exists is written only by a request for its
\* path with skip_cache; a request without it generates the file only when
\* there is none, and otherwise, unless cached_thumbs answers it, puts the
\* icon of the file as it is into cached_thumbs.
C20_ImmutableWithoutForce ==
    [][ThumbStep =>
          (/\ \A p \in ImagePaths :
                 (thumbs[p].exists /\ thumbs'[p] # thumbs[p]) =>
                    (Head(batch).path = p /\ Head(batch).skip_cache)
           /\ \A p \in ImagePaths : thumbs[p].exists => thumbs'[p].exists
           /\ (~Head(batch).skip_cache /\ thumbs' # thumbs) =>
                 (/\ ~thumbs[Head(batch).path].exists
                  /\ thumbs'[Head(batch).path] =
                        generate_thumbnail(Head(batch).path, fs[Head(batch).path]).file)
           /\ (/\ ~Head(batch).skip_cache
               /\ thumbs[Head(batch).path].exists
               /\ Head(batch).path \notin DOMAIN cached_thumbs) =>
                 (/\ thumbs' = thumbs
                  /\ Head(batch).path \in DOMAIN cached_thumbs'
                  /\ cached_thumbs'[Head(batch).path] = make_thumb(thumbs[Head(batch).path])
                  /\ last_thumb'.icon = make_thumb(thumbs[Head(batch).path])))]_vars

\* a request without skip_cache has loaded a thumbnail file that is older
\* than its image, and the file is as it was
C20_Witness ==
    /\ last_thumb.path = P2
    /\ ~last_thumb.skip_cache
    /\ last_thumb.io = {"thumb_path.is_file", "thumb_path.read"}
    /\ thumbs[P2].exists
    /\ fs[P2].exists /\ fs[P2].kind = "ok"
    /\ thumbs[P2] # generate_thumbnail(P2, fs[P2]).file
    /\ cached_thumbs[P2] = make_thumb(thumbs[P2])

\* the turn generates: it is not answered from cached_thumbs, and skip_cache
\* is set or there is no thumbnail file
Generating ==
    /\ ThumbStep
    /\ ~Hit(Head(batch).skip_cache, Head(batch).path, cached_thumbs)
    /\ MustGenerate(Head(batch).skip_cache, thumbs[Head(batch).path].exists)

\* C21: a generation for an image that no decoder loads answers with
\* fail_icon, writes no thumbnail file, adds nothing to cached_thumbs, and
\* goes on to the rest of the batch.
C21_UndecodableSource ==
    [][(Generating /\ ~try_to_load_image(fs[Head(batch).path]).loaded) =>
          (/\ last_thumb'.icon = fail_icon
           /\ thumbs' = thumbs
           /\ cached_thumbs' = cached_thumbs
           /\ batch' = Tail(batch)
           /\ fault' = fault)]_vars

(***************************************************************************)
(* Properties of generate_thumbnail.                                       *)
(***************************************************************************)
\* the rotation an orientation value asks for
RotationFor(orientation) ==
    CASE orientation = 8 -> -90
      [] orientation = 6 -> 90
      [] orientation = 3 -> 180
      [] OTHER -> 0

\* C22: a generated thumbnail is the image rotated, before it is scaled, by
\* the angle that the orientation value of the image file asks for: -90 for
\* 8, 90 for 6, 180 for 3, none for any other value or none.
C22_Orientation ==
    gen_out.written =>
        gen_out.pixmap = scaled(transformed(gen_in.image.pixmap,
                                            RotationFor(gen_in.image.orientation)))

\* the chunks of a PNG from a position on: where each starts and ends, its
\* length field, its type and its data
RECURSIVE ChunksFrom(_, _)
ChunksFrom(data, at) ==
    IF at + 12 > Len(data) THEN <<>>
    ELSE LET n == unpack_I(Slice(data, at, at + 4))
         IN  <<[start |-> at, end |-> at + 12 + n, length |-> n,
                type |-> Slice(data, at + 4, at + 8),
                payload |-> Slice(data, at + 8, at + 8 + n)]>>
             \o ChunksFrom(data, at + 12 + n)

\* the keyword of a tEXt chunk: the bytes before the first NUL
RECURSIVE Keyword(_)
Keyword(payload) ==
    IF payload = <<>> \/ payload[1] = 0 THEN <<>>
    ELSE <<payload[1]>> \o Keyword(Tail(payload))

\* the text of a tEXt chunk: the bytes after the first NUL
TextOf(payload) == Slice(payload, Len(Keyword(payload)) + 1, Len(payload))

\* C23: the bytes written are the encoded PNG with three tEXt chunks put in
\* at 8 + 12 + the length of the first chunk, Thumb::MTime, Thumb::URI and
\* Software in this order; without them the bytes are the encoded PNG again,
\* and the length field of each is len(keyword) + 1 + len(text).
C23_ChunkSplice ==
    gen_out.written =>
        LET enc == gen_out.encoded
            data == gen_out.data
            at == 8 + 12 + unpack_I(Slice(enc, 8, 12))
            put == ChunksFrom(Slice(data, 0, Len(data) - (Len(enc) - at)), at)
        IN  /\ Len(data) >= Len(enc)
            /\ Slice(data, 0, at) = Slice(enc, 0, at)
            /\ Slice(data, Len(data) - (Len(enc) - at), Len(data)) = Slice(enc, at, Len(enc))
            /\ Len(put) = 3
            /\ put[3].end = Len(data) - (Len(enc) - at)
            /\ \A k \in 1..3 :
                  /\ put[k].type = tEXt
                  /\ put[k].length = Len(Keyword(put[k].payload)) + 1 + Len(TextOf(put[k].payload))
                  /\ Slice(data, put[k].start, put[k].start + 4) =
                        pack_I(Len(Keyword(put[k].payload)) + 1 + Len(TextOf(put[k].payload)))
            /\ <<Keyword(put[1].payload), Keyword(put[2].payload), Keyword(put[3].payload)>>
                  = <<Thumb_MTime, Thumb_URI, Software>>

\* a thumbnail has been written for the path with a blank in it
C23_Witness ==
    /\ gen_out.written
    /\ 32 \in Range(gen_in.path)
    /\ Len(ChunksFrom(gen_out.data, 8)) = 6
    /\ Len(gen_out.data) > Len(gen_out.encoded) + 36

\* the three chunks put into the bytes written
PutChunks == ChunksFrom(gen_out.data, 8 + 12 + unpack_I(Slice(gen_out.data, 8, 12)))

\* the value of a hexadecimal digit
HexValue(c) == IF c < 58 THEN c - 48 ELSE c - 55

\* percent-decoding
RECURSIVE Unquote(_)
Unquote(b) ==
    IF b = <<>> THEN <<>>
    ELSE IF b[1] = 37 /\ Len(b) >= 3
    THEN <<HexValue(b[2]) * 16 + HexValue(b[3])>> \o Unquote(Slice(b, 3, Len(b)))
    ELSE <<b[1]>> \o Unquote(Tail(b))

\* the number a decimal text stands for
RECURSIVE Numeral(_)
Numeral(b) ==
    IF b = <<>> THEN 0
    ELSE IF b[1] = 45 THEN -Numeral(Tail(b))
    ELSE (b[Len(b)] - 48) + 10 * Numeral(Slice(b, 0, Len(b) - 1))

\* the Thumb::URI text is the URI that names the file, file:// followed by
\* the percent-encoded path
URIRoundTrip ==
    LET text == TextOf(PutChunks[2].payload)
        rest == Slice(text, Len(file_scheme), Len(text))
    IN  /\ Keyword(PutChunks[2].payload) = Thumb_URI
        /\ text = gen_out.name.md5
        /\ Slice(text, 0, Len(file_scheme)) = file_scheme
        /\ Range(rest) \subseteq Safe \cup {37}
        /\ Unquote(rest) = gen_in.path

\* the Thumb::MTime text is the decimal text of the number n
MTimeIs(n) ==
    LET text == TextOf(PutChunks[1].payload)
    IN  /\ Keyword(PutChunks[1].payload) = Thumb_MTime
        /\ Range(text) \subseteq (48..57) \cup {45}
        /\ Numeral(text) = n
        /\ text = str(n)

\* C24 as stated: the Thumb::URI text of a generated thumbnail is the URI
\* that names it, and the Thumb::MTime text is the decimal text of the
\* floor of the mtime of the image.
C24_Original ==
    gen_out.written => (URIRoundTrip /\ MTimeIs(gen_in.image.mtime \div 10))

\* C24: the Thumb::URI text of a generated thumbnail is the URI that names
\* it, and the Thumb::MTime text is the decimal text of the mtime of the
\* image cut to whole seconds towards zero, which is its floor for a time not
\* before the epoch.
C24_RoundTrip ==
    gen_out.written =>
        /\ URIRoundTrip
        /\ MTimeIs(IF gen_in.image.mtime < 0
                   THEN -((-gen_in.image.mtime) \div 10)
                   ELSE gen_in.image.mtime \div 10)
        /\ gen_in.image.mtime >= 0 => MTimeIs(gen_in.image.mtime \div 10)

\* a thumbnail has been written for an image last changed before the epoch,
\* at a path with bytes that are percent-encoded
C24_Witness ==
    /\ gen_out.written
    /\ gen_in.image.mtime < 0
    /\ 195 \in Range(gen_in.path)
    /\ 37 \in Range(TextOf(PutChunks[2].payload))
    /\ TextOf(PutChunks[1].payload) = <<45, 49>>

(***************************************************************************)
(* Properties of the thumbnail view.                                       *)
(***************************************************************************)
\* a call of ThumbView.load_index is made
LoadCall == tv_calls' # tv_calls

\* C25: load_index runs to its end whatever the cache and the files hold,
\* and lists every cached image that exists under an active root: a path
\* that is gone is left out, and a file whose format cannot be identified
\* neither stops the load nor hides the other images.
C25_LoadTolerates ==
    [][(LoadCall /\ CACHE.state # "nofile") =>
          (/\ fault' = fault
           /\ [k \in DOMAIN tv_items' |-> tv_items'[k].path] = Loadable(CACHE.images))]_vars

\* add_thumbnail takes an event
AddStep == ready # <<>> /\ ready' = Tail(ready)

\* an event of another batch changes no icon and not the progress value
StaleDropped ==
    (AddStep /\ Head(ready).batch # tv_batch) => UNCHANGED <<tv_items, tv_progress>>

\* an event of the current batch addresses a row of the view and sets its icon
CurrentInRange ==
    (AddStep /\ Head(ready).batch = tv_batch) =>
        (/\ Head(ready).index < Len(tv_items)
         /\ fault' = fault
         /\ tv_items'[Head(ready).index + 1].icon = Head(ready).icon)

\* C26 as stated: every call of load_index raises the batch number; an event
\* of another batch is dropped; an event of the current batch addresses a row.
C26_Original ==
    [][(LoadCall => tv_batch' = tv_batch + 1) /\ StaleDropped /\ CurrentInRange]_vars

\* C26: every call of load_index that finds the cache file raises the batch
\* number by one, and a call that finds none leaves the number and the rows
\* as they are; an event of another batch changes no icon and not the
\* progress value; an event of the current batch addresses a row.
C26_StaleDropped ==
    [][(/\ (LoadCall /\ CACHE.state # "nofile") => tv_batch' = tv_batch + 1
        /\ (LoadCall /\ CACHE.state = "nofile") => UNCHANGED <<tv_batch, tv_items, image_queue>>
        /\ StaleDropped
        /\ CurrentInRange)]_vars

\* after a second load the events of the first batch have been dropped and
\* those of the second have set both icons
C26_Witness ==
    /\ tv_batch = 2
    /\ tv_dropped >= 2
    /\ Len(tv_items) = 2
    /\ tv_progress.value = 2
    /\ \A k \in DOMAIN tv_items : tv_items[k].icon # default_icon
    /\ ready = <<>>

(***************************************************************************)
(* Properties of the clicks on the tag list.                               *)
(***************************************************************************)
\* the rows whose state a step changes
Switched == {k \in DOMAIN tag_list : tag_list'[k].state # tag_list[k].state}

\* C27: a left click makes a DEFAULT row WHITELISTED and any other row
\* DEFAULT, a right click makes a DEFAULT row BLACKLISTED and any other row
\* DEFAULT; no click takes a row from WHITELISTED to BLACKLISTED or back; a
\* click changes the state of one row and neither the tag nor the total
\* count of any; no tag is whitelisted and blacklisted at once.
C27_ClickTransitions ==
    /\ [](/\ Clicked("DEFAULT", "left") = "WHITELISTED"
          /\ Clicked("DEFAULT", "right") = "BLACKLISTED"
          /\ \A state \in TagStates \ {"DEFAULT"} : \A button \in {"left", "right"} :
                Clicked(state, button) = "DEFAULT"
          /\ whitelist(tag_list) \cap blacklist(tag_list) = {})
    /\ [][(/\ DOMAIN tag_list' = DOMAIN tag_list
           /\ \A k \in DOMAIN tag_list :
                 /\ tag_list'[k].tag = tag_list[k].tag
                 /\ tag_list'[k].count = tag_list[k].count
           /\ Cardinality(Switched) = 1
           /\ \A k \in Switched :
                 /\ "DEFAULT" \in {tag_list[k].state, tag_list'[k].state}
                 /\ \E button \in {"left", "right"} :
                       tag_list'[k].state = Clicked(tag_list[k].state, button)
           /\ tag_count' = tag_count)]_vars

\* one tag is whitelisted and the other blacklisted
C27_Witness ==
    /\ whitelist(tag_list) # {}
    /\ blacklist(tag_list) # {}
    /\ untagged_state(tag_list) = "DEFAULT"

(***************************************************************************)
(* More properties of the tag edit.                                        *)
(***************************************************************************)
\* C28: when a tag edit starts, the row of the untagged images, the one with
\* the empty tag, is the first row of the tag list, so the row the edit
\* takes out before it patches the counts is never the row of a tag.
C28_UntaggedOnTop ==
    [][EditStep => (tag_list # <<>> /\ tag_list[1].tag = "")]_vars

(***************************************************************************)
(* More properties of the thumbnail loader.                                *)
(***************************************************************************)
\* C29: cached_thumbs holds an icon for a path only if the last generation
\* or load for the path succeeded: once a request has been answered with
\* fail_icon, cached_thumbs holds nothing for its path, so that a later
\* request without skip_cache is not answered with an icon from before.
C29_CacheOnlySuccesses ==
    [][(ThumbStep /\ last_thumb'.icon = fail_icon) =>
          Head(batch).path \notin DOMAIN cached_thumbs']_vars

(***************************************************************************)
(* The copies of the tags of an image after a tag edit.                    *)
(***************************************************************************)
\* the images whose file the edit e has rewritten: those jfti.set_tags was
\* called for, but for the one it raised at
Rewritten(e) ==
    {e.set_tags_calls[n] : n \in {m \in DOMAIN e.set_tags_calls :
                                     ~(e.raised /\ m = Len(e.set_tags_calls))}}

\* C30: when a tag edit has ended, however it ended, every image whose file
\* it rewrote has its new tags in its item, in its record in the cache file,
\* and in the totals of the tag list.
C30_CopiesInStep ==
    [][EditStep =>
          \A k \in Rewritten(last_edit') :
             /\ items'[k].tags = fs'[items[k].path].tags
             /\ CACHE'.state = "ok"
             /\ items[k].path \in DOMAIN CACHE'.images
             /\ Range(CACHE'.images[items[k].path].tags) = items'[k].tags
             /\ \A t \in items'[k].tags :
                   \E r \in DOMAIN tag_list' :
                      /\ tag_list'[r].tag = t
                      /\ tag_list'[r].count = Cardinality(Carriers(items', t))]_vars

\* the same for the item and the cache record alone, in an edit in which no
\* write fails and the cache file is there
CopiesWithoutCounts ==
    [][(EditStep /\ ~last_edit'.raised /\ CACHE.state = "ok") =>
          \A k \in Rewritten(last_edit') :
             /\ items'[k].tags = fs'[items[k].path].tags
             /\ CACHE'.state = "ok"
             /\ items[k].path \in DOMAIN CACHE'.images =>
                   Range(CACHE'.images[items[k].path].tags) = items'[k].tags]_vars

=============================================================================
